---- MODULE Spec2Model ----
(***************************************************************************)
(* A model of kays-Super-Predictor: the ingestion run of src/scraper.py    *)
(* (make_request, calculate_over15_rate, run_scraper and the write of      *)
(* predictions.csv) and the read side of src/App.py (load_predictions,     *)
(* get_top_picks).                                                         *)
(*                                                                         *)
(* Conventions.  A timestamp is a number of hours; a calendar date is a    *)
(* number of days.  A rate is a fraction [num, den]; a value rounded to    *)
(* two decimals is a number of hundredths.  A nullable score is a sequence *)
(* of length 0 (None, '' or a blank CSV cell) or 1.  A JSON payload is     *)
(* modelled by its 'matches' list; the empty list also stands for a        *)
(* payload without that key and for the empty object.                      *)
(***************************************************************************)
EXTENDS Integers, Sequences, FiniteSets, TLC

VARIABLES
    API_TOKEN,      \* scraper.py:10-12, the module-level credential
    today_dt,       \* scraper.py:76, datetime.now() of the run, in hours
    file,           \* the rows of predictions.csv on disk
    file0,          \* history: the rows of predictions.csv before the run
    pc,             \* position of run_scraper
    ci,             \* index into COMPETITIONS of the for loop (scraper.py:80)
    historical,     \* scraper.py:82
    all_data,       \* scraper.py:73
    df,             \* scraper.py:136-138, the frame being written
    wpos,           \* to_csv: the number of rows of df written so far
    mr_i,           \* make_request: the value of the loop variable of range(3)
    mr_pc,          \* make_request: "get" before requests.get, "sleep" in time.sleep
    mr_log,         \* history: the events of the current (or last) make_request call
    mr_ret,         \* history: "running", or how the last call ended
    network_used,   \* history: a request has been issued to the provider
    comp_base,      \* history: Len(all_data) when the current competition began
    hist_ok,        \* history: make_request returned a payload for its history
    seen_fixtures,  \* history: the fixtures the provider returned in this run
    loaded,         \* App.py:105, what the last load_predictions read
    has_loaded,     \* history: load_predictions has run
    r_matches, r_team, r_before, r_after, r_pc,   \* the rate calculation on its own
    p_df, p_out, p_df2, p_out2, p_pc              \* the pick selection on its own

runVars  == <<API_TOKEN, today_dt, file, file0, pc, ci, historical, all_data, df,
              wpos, mr_i, mr_pc, mr_log, mr_ret, network_used, comp_base, hist_ok,
              seen_fixtures, loaded, has_loaded>>
rateVars == <<r_matches, r_team, r_before, r_after, r_pc>>
pickVars == <<p_df, p_out, p_df2, p_out2, p_pc>>
vars     == <<runVars, rateVars, pickVars>>

-----------------------------------------------------------------------------
(* Bounds of the model *)

\* The provider's answers of one run hold at most this many matches besides the
\* histories: a payload is no longer than what is left of it.
MaxRecords == 2

SeqsUpTo(U, n) == UNION {[1..k -> U] : k \in 0..n}

-----------------------------------------------------------------------------
(* Program constants *)

NoneValue == "<None>"
COMPETITIONS == <<"PL", "BL1", "PD", "SA", "FL1", "CL">>
HoursPerDay == 24
\* range(3)
RetryCount == 3
\* timedelta(days=3)
HorizonDays == 3
\* "(score['home'] + score['away']) >= 2"
Over15Goals == 2

-----------------------------------------------------------------------------
(* Python and library semantics used by the code *)

\* A test that takes only None for a missing value.
TruthyNotNone(v) == v # NoneValue
\* "if not API_TOKEN", "if not data": None and the empty string are falsy.
Truthy(v) == v # NoneValue /\ v # ""

\* match['utcDate'].split('T')[0]: the calendar date of a timestamp.
DateOf(utc) == utc \div HoursPerDay
\* match['utcDate'].split('T')[1][:5]: the time of day of a timestamp.
TimeOf(utc) == utc % HoursPerDay
\* datetime.strptime(match_date, '%Y-%m-%d'): midnight of that date.
Strptime(d) == d * HoursPerDay

\* round(x, 2) of the fraction r, in hundredths (ties to even).
Round2(r) ==
    LET n == 100 * r.num
        q == n \div r.den
        m == n % r.den
    IN  IF 2 * m < r.den THEN q
        ELSE IF 2 * m > r.den THEN q + 1
        ELSE IF q % 2 = 0 THEN q ELSE q + 1

\* (rate_home + rate_away) / 2
Mean(a, b) == [num |-> a.num * b.den + b.num * a.den, den |-> 2 * a.den * b.den]

RateEq(a, b) == a.num * b.den = b.num * a.den

-----------------------------------------------------------------------------
(* scraper.py: the pure parts *)

Key(r) == <<r.Date, r.HomeTeam, r.AwayTeam>>
Keys(s) == {Key(s[i]) : i \in 1..Len(s)}
Range(s) == {s[i] : i \in 1..Len(s)}

\* calculate_over15_rate(matches, team_name), unrounded.
calculate_over15_rate(matches, team_name) ==
    LET Involves(m) == m.homeTeam = team_name \/ m.awayTeam = team_name
        relevant_matches == SelectSeq(matches, Involves)
        Over(m) == /\ m.home # <<>>
                   /\ m.away # <<>>
                   /\ m.home[1] + m.away[1] >= Over15Goals
        over15_count == Len(SelectSeq(relevant_matches, Over))
    IN  IF relevant_matches = <<>>
        THEN [num |-> 1, den |-> 2]
        ELSE [num |-> over15_count, den |-> Len(relevant_matches)]

\* The dict appended for a recently finished match (scraper.py:89-100).
ResultRecord(match, hist) ==
    [Date |-> DateOf(match.utcDate),
     League |-> match.competition,
     HomeTeam |-> match.homeTeam,
     AwayTeam |-> match.awayTeam,
     Time |-> TimeOf(match.utcDate),
     Over15_Rate_Home |-> Round2(calculate_over15_rate(hist, match.homeTeam)),
     Over15_Rate_Away |-> Round2(calculate_over15_rate(hist, match.awayTeam)),
     Model_Prob |-> 0,
     HomeScore |-> match.home,
     AwayScore |-> match.away]

\* The dict appended for a scheduled fixture (scraper.py:115-132).
FixtureRecord(fixture, hist) ==
    LET rate_home == calculate_over15_rate(hist, fixture.homeTeam)
        rate_away == calculate_over15_rate(hist, fixture.awayTeam)
    IN  [Date |-> DateOf(fixture.utcDate),
         League |-> fixture.competition,
         HomeTeam |-> fixture.homeTeam,
         AwayTeam |-> fixture.awayTeam,
         Time |-> TimeOf(fixture.utcDate),
         Over15_Rate_Home |-> Round2(rate_home),
         Over15_Rate_Away |-> Round2(rate_away),
         Model_Prob |-> Round2(Mean(rate_home, rate_away)),
         HomeScore |-> <<>>,
         AwayScore |-> <<>>]

\* "if date_obj > today_dt + timedelta(days=3): continue" (scraper.py:111-113):
\* TRUE when the fixture is skipped.  (BeyondHorizonStrict compares with >=.)
BeyondHorizonStrict(fixture, now) ==
    Strptime(DateOf(fixture.utcDate)) >= now + HorizonDays * HoursPerDay
BeyondHorizon(fixture, now) ==
    Strptime(DateOf(fixture.utcDate)) > now + HorizonDays * HoursPerDay

\* The rows the loop over recent results appends (scraper.py:87-100).
ResultRows(matches, hist) ==
    [i \in 1..Len(matches) |-> ResultRecord(matches[i], hist)]

\* The rows the loop over fixtures appends (scraper.py:104-132).
FixtureRows(fixtures, hist, now) ==
    LET Kept(f) == ~BeyondHorizon(f, now)
        kept == SelectSeq(fixtures, Kept)
    IN  [i \in 1..Len(kept) |-> FixtureRecord(kept[i], hist)]

\* df.drop_duplicates(subset=['Date', 'HomeTeam', 'AwayTeam']) with keep='last'.
DropDuplicatesKeepLast(s) ==
    LET Later(i) == \E j \in (i + 1)..Len(s) : Key(s[j]) = Key(s[i])
        F[i \in 0..Len(s)] ==
            IF i = 0 THEN <<>>
            ELSE IF Later(i) THEN F[i - 1] ELSE Append(F[i - 1], s[i])
    IN  F[Len(s)]

\* df.drop_duplicates(subset=['Date', 'HomeTeam', 'AwayTeam']): pandas' default
\* keep='first' keeps the first row of every key, in order (scraper.py:138).
DropDuplicates(s) ==
    LET Earlier(i) == \E j \in 1..(i - 1) : Key(s[j]) = Key(s[i])
        F[i \in 0..Len(s)] ==
            IF i = 0 THEN <<>>
            ELSE IF Earlier(i) THEN F[i - 1] ELSE Append(F[i - 1], s[i])
    IN  F[Len(s)]

\* Opening the file in append mode keeps its rows.
OpenForAppend(rows) == rows
\* df.to_csv('predictions.csv') opens the file for writing, which truncates it
\* (scraper.py:139).
OpenForWrite(rows) == <<>>

-----------------------------------------------------------------------------
(* The provider: what a request can be answered with *)

Match(utc, comp, h, a, sh, sa) ==
    [utcDate |-> utc, competition |-> comp, homeTeam |-> h, awayTeam |-> a,
     home |-> sh, away |-> sa]

\* status=FINISHED: the history of a competition: nothing, one match of three
\* goals, or that match and one without a score.
HistoryPayloads(comp) ==
    {<<>>,
     <<Match(100, comp, "A", "B", <<2>>, <<1>>)>>,
     <<Match(100, comp, "A", "B", <<2>>, <<1>>),
       Match(124, comp, "B", "A", <<>>, <<>>)>>}

\* status=FINISHED&dateFrom=yesterday&dateTo=today (scraper.py:85): the provider
\* applies the date range.
RecentMatches(comp, now) ==
    {Match(Strptime(DateOf(now - HoursPerDay)) + 20, comp, "A", "B", <<1>>, <<0>>),
     Match(Strptime(DateOf(now)) + 1, comp, "A", "B", <<2>>, <<1>>)}

\* status=SCHEDULED: kick-offs on day 10 at 01:00 and 05:00, on day 13 at 20:00
\* and on day 14 at 01:00.
FixtureTimes == {241, 245, 332, 337}
ScheduledMatches(comp) ==
    {Match(t, comp, "A", "B", <<>>, <<>>) : t \in FixtureTimes}

\* match['competition']['name'] as the provider gives it for a competition code.
CompetitionName(code) == IF code = "CL" THEN "Champions League" ELSE "League"

\* The run starts on day 10, at 00:00 or at 10:00.
RunTimes == {240, 250}

Tokens == {NoneValue, "", "secret"}

OldRecord ==
    [Date |-> 5, League |-> "PL", HomeTeam |-> "A", AwayTeam |-> "B", Time |-> 15,
     Over15_Rate_Home |-> 50, Over15_Rate_Away |-> 50, Model_Prob |-> 50,
     HomeScore |-> <<>>, AwayScore |-> <<>>]
PriorSnapshots == {<<>>, <<OldRecord>>}

-----------------------------------------------------------------------------
(* run_scraper and make_request, step by step *)

\* The rate calculation and the pick selection on their own are not running.
RateOff ==
    /\ r_matches = <<>>
    /\ r_team = "A"
    /\ r_before = [num |-> 0, den |-> 1]
    /\ r_after = [num |-> 0, den |-> 1]
    /\ r_pc = "off"
PicksOff ==
    /\ p_df = <<>>
    /\ p_out = <<>>
    /\ p_df2 = <<>>
    /\ p_out2 = <<>>
    /\ p_pc = "off"

\* The process before run_scraper is called.
RunInit ==
    /\ API_TOKEN \in Tokens
    /\ today_dt \in RunTimes
    /\ file \in PriorSnapshots
    /\ file0 = file
    /\ pc = "start"
    /\ ci = 1
    /\ historical = <<>>
    /\ all_data = <<>>
    /\ df = <<>>
    /\ wpos = 0
    /\ mr_i = 0
    /\ mr_pc = "get"
    /\ mr_log = <<>>
    /\ mr_ret = "idle"
    /\ network_used = FALSE
    /\ comp_base = 0
    /\ hist_ok = TRUE
    /\ seen_fixtures = {}
    /\ loaded = <<>>
    /\ has_loaded = FALSE

\* run_scraper is not running.
RunOff ==
    /\ API_TOKEN = "secret"
    /\ today_dt = 240
    /\ file = <<>>
    /\ file0 = <<>>
    /\ pc = "off"
    /\ ci = 1
    /\ historical = <<>>
    /\ all_data = <<>>
    /\ df = <<>>
    /\ wpos = 0
    /\ mr_i = 0
    /\ mr_pc = "get"
    /\ mr_log = <<>>
    /\ mr_ret = "idle"
    /\ network_used = FALSE
    /\ comp_base = 0
    /\ hist_ok = TRUE
    /\ seen_fixtures = {}
    /\ loaded = <<>>
    /\ has_loaded = FALSE

Init == RunInit /\ RateOff /\ PicksOff

readerVars == <<loaded, has_loaded>>
mrVars == <<mr_i, mr_pc, mr_log, mr_ret>>
inputVars == <<API_TOKEN, today_dt, file0>>
otherVars == <<rateVars, pickVars>>

\* scraper.py:69-71: no usable token, the run ends at once.
ConfigError ==
    /\ pc = "start"
    /\ ~Truthy(API_TOKEN)
    /\ pc' = "config_error"
    /\ UNCHANGED <<inputVars, file, ci, historical, all_data, df, wpos, mrVars,
                   network_used, comp_base, hist_ok, seen_fixtures, readerVars,
                   otherVars>>

\* scraper.py:73-78: the run begins.
RunScraperStart ==
    /\ pc = "start"
    /\ Truthy(API_TOKEN)
    /\ all_data' = <<>>
    /\ ci' = 1
    /\ pc' = "loop"
    /\ UNCHANGED <<inputVars, file, historical, df, wpos, mrVars, network_used,
                   comp_base, hist_ok, seen_fixtures, readerVars, otherVars>>

\* scraper.py:80-82: the head of "for comp in COMPETITIONS": the next competition
\* begins, with get_historical_data(comp).
LoopNext ==
    /\ pc = "loop"
    /\ ci <= Len(COMPETITIONS)
    /\ pc' = "hist"
    /\ comp_base' = Len(all_data)
    /\ hist_ok' = TRUE
    /\ UNCHANGED <<inputVars, file, ci, historical, all_data, df, wpos, mrVars,
                   network_used, seen_fixtures, readerVars, otherVars>>

\* scraper.py:80, 134: the loop is exhausted.
LoopEnd ==
    /\ pc = "loop"
    /\ ci > Len(COMPETITIONS)
    /\ pc' = "save"
    /\ UNCHANGED <<inputVars, file, ci, historical, all_data, df, wpos, mrVars,
                   network_used, comp_base, hist_ok, seen_fixtures, readerVars,
                   otherVars>>

AtRequest == pc \in {"hist", "results", "fixtures"}

\* scraper.py:20-22: make_request is entered (from scraper.py:37, 86 or 45).
MakeRequest ==
    /\ AtRequest
    /\ mr_ret # "running"
    /\ mr_i' = 0
    /\ mr_pc' = "get"
    /\ mr_log' = <<>>
    /\ mr_ret' = "running"
    /\ UNCHANGED <<inputVars, file, pc, ci, historical, all_data, df, wpos,
                   network_used, comp_base, hist_ok, seen_fixtures, readerVars,
                   otherVars>>

\* What the caller of make_request does with its result, up to its next call:
\* ok is FALSE for None; matches is the payload's match list.
Returned(ok, matches) ==
    CASE pc = "hist" ->
            \* get_historical_data (scraper.py:34-40).
            /\ historical' = IF ok THEN matches ELSE <<>>
            /\ hist_ok' = ok
            /\ pc' = "results"
            /\ UNCHANGED <<all_data, ci, seen_fixtures>>
      [] pc = "results" ->
            \* scraper.py:86-100.
            /\ all_data' = IF ok THEN all_data \o ResultRows(matches, historical)
                                 ELSE all_data
            /\ pc' = "fixtures"
            /\ UNCHANGED <<historical, hist_ok, ci, seen_fixtures>>
      [] pc = "fixtures" ->
            \* get_fixtures (scraper.py:42-48), the loop over the fixtures
            \* (scraper.py:104-132), and on to the next competition.
            /\ all_data' = IF ok
                           THEN all_data \o FixtureRows(matches, historical, today_dt)
                           ELSE all_data
            /\ seen_fixtures' = IF ok THEN seen_fixtures \cup Range(matches)
                                      ELSE seen_fixtures
            /\ ci' = ci + 1
            /\ pc' = "loop"
            /\ UNCHANGED <<historical, hist_ok>>

\* The match lists the provider can answer the current request with.
Payloads ==
    LET comp == CompetitionName(COMPETITIONS[ci])
        left == MaxRecords - Len(all_data)
    IN  CASE pc = "hist" -> HistoryPayloads(comp)
          [] pc = "results" -> SeqsUpTo(RecentMatches(comp, today_dt), left)
          [] pc = "fixtures" -> SeqsUpTo(ScheduledMatches(comp), left)

\* A provider that has no match of any competition.
NoMatches == {<<>>}

Getting == AtRequest /\ mr_ret = "running" /\ mr_pc = "get"

\* scraper.py:23-25: status 200 and a body that parses; the payload, one of P,
\* is returned.
Get200(P) ==
    /\ Getting
    /\ \E p \in P : Returned(TRUE, p)
    /\ network_used' = TRUE
    /\ mr_log' = Append(mr_log, "200")
    /\ mr_ret' = "payload"
    /\ UNCHANGED <<inputVars, file, df, wpos, mr_i, mr_pc, comp_base, readerVars,
                   otherVars>>

\* scraper.py:25: status 200 and a body that is not JSON: response.json() raises,
\* and nothing up to run_scraper's caller catches it.
Get200Malformed ==
    /\ Getting
    /\ network_used' = TRUE
    /\ mr_log' = Append(mr_log, "200")
    /\ mr_ret' = "raised"
    /\ pc' = "raised"
    /\ UNCHANGED <<inputVars, file, ci, historical, all_data, df, wpos, mr_i, mr_pc,
                   comp_base, hist_ok, seen_fixtures, readerVars, otherVars>>

\* scraper.py:23: the provider is unreachable: requests.get raises, and nothing
\* up to run_scraper's caller catches it.
GetUnreachable ==
    /\ Getting
    /\ network_used' = TRUE
    /\ mr_log' = Append(mr_log, "unreachable")
    /\ mr_ret' = "raised"
    /\ pc' = "raised"
    /\ UNCHANGED <<inputVars, file, ci, historical, all_data, df, wpos, mr_i, mr_pc,
                   comp_base, hist_ok, seen_fixtures, readerVars, otherVars>>

\* scraper.py:26-28: status 429; the call goes to sleep.
Get429 ==
    /\ Getting
    /\ network_used' = TRUE
    /\ mr_log' = Append(mr_log, "429")
    /\ mr_pc' = "sleep"
    /\ UNCHANGED <<inputVars, file, pc, ci, historical, all_data, df, wpos, mr_i,
                   mr_ret, comp_base, hist_ok, seen_fixtures, readerVars, otherVars>>

\* scraper.py:29-31: any other status; None is returned.
GetOther ==
    /\ Getting
    /\ Returned(FALSE, <<>>)
    /\ network_used' = TRUE
    /\ mr_log' = Append(mr_log, "other")
    /\ mr_ret' = "None"
    /\ UNCHANGED <<inputVars, file, df, wpos, mr_i, mr_pc, comp_base, readerVars,
                   otherVars>>

Sleeping == AtRequest /\ mr_ret = "running" /\ mr_pc = "sleep"

\* scraper.py:28, 22: time.sleep(60) is over and range(3) has a next value.
SleepRetry ==
    /\ Sleeping
    /\ mr_i + 1 < RetryCount
    /\ mr_log' = Append(mr_log, "sleep")
    /\ mr_i' = mr_i + 1
    /\ mr_pc' = "get"
    /\ UNCHANGED <<inputVars, file, pc, ci, historical, all_data, df, wpos, mr_ret,
                   network_used, comp_base, hist_ok, seen_fixtures, readerVars,
                   otherVars>>

\* scraper.py:28, 22, 32: time.sleep(60) is over and range(3) is exhausted; None
\* is returned.
SleepGiveUp ==
    /\ Sleeping
    /\ mr_i + 1 >= RetryCount
    /\ Returned(FALSE, <<>>)
    /\ mr_log' = Append(mr_log, "sleep")
    /\ mr_ret' = "None"
    /\ UNCHANGED <<inputVars, file, df, wpos, mr_i, mr_pc, network_used, comp_base,
                   readerVars, otherVars>>

\* scraper.py:135-139: all_data is not empty; the frame is deduplicated and
\* to_csv opens predictions.csv.
SaveOpen ==
    /\ pc = "save"
    /\ all_data # <<>>
    /\ df' = DropDuplicates(all_data)
    /\ wpos' = 0
    /\ file' = OpenForWrite(file)
    /\ pc' = "writing"
    /\ UNCHANGED <<inputVars, ci, historical, all_data, mrVars, network_used,
                   comp_base, hist_ok, seen_fixtures, readerVars, otherVars>>

\* scraper.py:139: to_csv writes the next row.
WriteRow ==
    /\ pc = "writing"
    /\ wpos < Len(df)
    /\ file' = Append(file, df[wpos + 1])
    /\ wpos' = wpos + 1
    /\ UNCHANGED <<inputVars, pc, ci, historical, all_data, df, mrVars,
                   network_used, comp_base, hist_ok, seen_fixtures, readerVars,
                   otherVars>>

\* scraper.py:139-140: every row is written; to_csv closes the file and the run
\* ends.
WriteClose ==
    /\ pc = "writing"
    /\ wpos = Len(df)
    /\ pc' = "done"
    /\ UNCHANGED <<inputVars, file, ci, historical, all_data, df, wpos, mrVars,
                   network_used, comp_base, hist_ok, seen_fixtures, readerVars,
                   otherVars>>

\* scraper.py:141-142: all_data is empty; nothing is written.
SaveNoData ==
    /\ pc = "save"
    /\ all_data = <<>>
    /\ pc' = "done"
    /\ UNCHANGED <<inputVars, file, ci, historical, all_data, df, wpos, mrVars,
                   network_used, comp_base, hist_ok, seen_fixtures, readerVars,
                   otherVars>>

\* App.py:102-116: the display layer, a process of its own, reads
\* predictions.csv as it is on disk at that moment (a file it cannot parse, such
\* as one of zero bytes, gives the empty frame).
LoadPredictions ==
    /\ loaded' = file
    /\ has_loaded' = TRUE
    /\ UNCHANGED <<inputVars, file, pc, ci, historical, all_data, df, wpos, mrVars,
                   network_used, comp_base, hist_ok, seen_fixtures, otherVars>>

\* The run with every answer of the provider but 429 (which only delays what
\* make_request returns: SpecRetry has it).
Next ==
    \/ ConfigError
    \/ RunScraperStart
    \/ LoopNext
    \/ LoopEnd
    \/ MakeRequest
    \/ Get200(Payloads)
    \/ Get200Malformed
    \/ GetUnreachable
    \/ GetOther
    \/ SaveOpen
    \/ WriteRow
    \/ WriteClose
    \/ SaveNoData

Spec == Init /\ [][Next]_vars

\* The run with every answer of the provider, 429 included, and a provider that
\* has no match of any competition.
InitRetry == Init /\ Truthy(API_TOKEN)
NextRetry ==
    \/ RunScraperStart
    \/ LoopNext
    \/ LoopEnd
    \/ MakeRequest
    \/ Get200(NoMatches)
    \/ Get200Malformed
    \/ GetUnreachable
    \/ Get429
    \/ GetOther
    \/ SleepRetry
    \/ SleepGiveUp
    \/ SaveNoData

SpecRetry == InitRetry /\ [][NextRetry]_vars

\* The run beside the display layer, which reads the file at any moment.
InitReader == Init /\ Truthy(API_TOKEN) /\ file # <<>>
NextReader ==
    \/ RunScraperStart
    \/ LoopNext
    \/ LoopEnd
    \/ MakeRequest
    \/ Get200(Payloads)
    \/ GetOther
    \/ SaveOpen
    \/ WriteRow
    \/ WriteClose
    \/ SaveNoData
    \/ LoadPredictions

SpecReader == InitReader /\ [][NextReader]_vars

-----------------------------------------------------------------------------
(* Properties of the run *)

NoUsableToken == API_TOKEN = NoneValue \/ API_TOKEN = ""
Completed == pc = "done" /\ ~NoUsableToken
Written == Completed /\ all_data # <<>>
RowsOfKey(s, k) == {i \in 1..Len(s) : Key(s[i]) = k}
FirstOf(s, k) == s[CHOOSE i \in RowsOfKey(s, k) : \A j \in RowsOfKey(s, k) : i <= j]
LastOf(s, k) == s[CHOOSE i \in RowsOfKey(s, k) : \A j \in RowsOfKey(s, k) : i >= j]

C3_FailureIsolation ==
    /\ pc # "raised"
    /\ (pc = "loop" /\ ci > 1 /\ ~hist_ok) => Len(all_data) = comp_base

Requests(log) == Cardinality({i \in 1..Len(log) : log[i] # "sleep"})

\* C4: a call of make_request issues at most 3 requests and ends by returning
\* the payload of a 200 or None, never by raising.
C4_ReturnsNeverRaises ==
    /\ Requests(mr_log) <= RetryCount
    /\ mr_ret \in {"idle", "running", "payload", "None"}
    /\ mr_ret = "payload" => mr_log[Len(mr_log)] = "200"

\* C5: without a usable token no request is issued, no record is built, the
\* persisted dataset is as it was, and the run ends in the configuration error.
C5_NoCredential ==
    NoUsableToken =>
        /\ ~network_used
        /\ all_data = <<>>
        /\ file = file0
        /\ pc \in {"start", "config_error"}

\* A run without a usable token that has ended.
C5_Witness == NoUsableToken /\ pc = "config_error" /\ file0 # <<>>

\* The persisted dataset is exactly the deduplicated records of the run.
IsSnapshotOfRun ==
    /\ Keys(file) = Keys(all_data)
    /\ \A k \in Keys(file) : Cardinality(RowsOfKey(file, k)) = 1
    /\ Range(file) \subseteq Range(all_data)
    /\ \A r \in Range(file0) : Key(r) \notin Keys(all_data) => r \notin Range(file)

\* C6 as stated: after any completed run with a credential, a run of zero
\* records included, the persisted dataset is exactly the run's deduplicated
\* records.
C6_SnapshotAlways == Completed => IsSnapshotOfRun

\* C6 amended: after a completed run with a credential that built at least one
\* record, the persisted dataset is exactly the run's deduplicated records and
\* no prior record of another key is left; after one that built no record, the
\* persisted dataset is the prior snapshot, unchanged.
C6_SnapshotUnlessEmpty ==
    Completed => IF all_data # <<>> THEN IsSnapshotOfRun ELSE file = file0

\* A completed run that built records over a prior snapshot, none of whose
\* records is left.
C6_Witness ==
    /\ Written
    /\ file0 # <<>>
    /\ \A r \in Range(file0) : r \notin Range(file)

\* C7: whatever load_predictions reads is the complete old snapshot or the
\* complete new one.
C7_AtomicReplace ==
    has_loaded =>
        \/ loaded = file0
        \/ pc \in {"writing", "done"} /\ all_data # <<>> /\ loaded = df

FixtureKey(f) == <<DateOf(f.utcDate), f.homeTeam, f.awayTeam>>

\* C8: a fixture the provider returned is left out of the records, and of the
\* written dataset, if its date is more than 3 days past the run's time, and is
\* in them if not; a date exactly 3 days past the run's time is not beyond it.
C8_Horizon ==
    \A f \in seen_fixtures :
        IF Strptime(DateOf(f.utcDate)) > today_dt + HorizonDays * HoursPerDay
        THEN /\ FixtureKey(f) \notin Keys(all_data)
             /\ Written => FixtureKey(f) \notin Keys(file)
        ELSE /\ FixtureKey(f) \in Keys(all_data)
             /\ Completed => FixtureKey(f) \in Keys(file)

\* A completed run that wrote a fixture dated exactly 3 days past its time and
\* left out one dated later.
C8_Witness ==
    /\ Completed
    /\ \E f \in seen_fixtures :
          /\ Strptime(DateOf(f.utcDate)) = today_dt + HorizonDays * HoursPerDay
          /\ FixtureKey(f) \in Keys(file)
    /\ \E f \in seen_fixtures :
          /\ Strptime(DateOf(f.utcDate)) > today_dt + HorizonDays * HoursPerDay
          /\ FixtureKey(f) \notin Keys(file)

\* C10: in a call of make_request every sleep directly follows a 429, and the
\* call does not return right after a sleep.
C10_CooldownThenRetry ==
    /\ \A i \in 1..Len(mr_log) :
          mr_log[i] = "sleep" => i > 1 /\ mr_log[i - 1] = "429"
    /\ (mr_ret \in {"payload", "None"} /\ mr_log # <<>>)
          => mr_log[Len(mr_log)] # "sleep"

-----------------------------------------------------------------------------
(* calculate_over15_rate on its own *)

\* The longest match list the rate is calculated of.
MaxRateMatches == 2

RateTeams == {"A", "C"}
ScoredMatches ==
    {Match(100, "League", "A", "B", <<2>>, <<0>>),
     Match(124, "League", "B", "A", <<1>>, <<0>>),
     Match(148, "League", "C", "B", <<3>>, <<1>>)}
MissingScoreMatches ==
    {Match(172, "League", h, a, sc[1], sc[2]) :
        h \in {"A", "B", "C"}, a \in {"A", "B", "C"},
        sc \in {<< <<>>, <<>> >>, << <<>>, <<2>> >>, << <<3>>, <<>> >>}}

InsertAt(s, i, m) == SubSeq(s, 1, i - 1) \o <<m>> \o SubSeq(s, i, Len(s))

InitRate ==
    /\ RunOff
    /\ PicksOff
    /\ r_matches \in SeqsUpTo(ScoredMatches \cup MissingScoreMatches, MaxRateMatches)
    /\ r_team \in RateTeams
    /\ r_before = [num |-> 0, den |-> 1]
    /\ r_after = [num |-> 0, den |-> 1]
    /\ r_pc = "input"

\* calculate_over15_rate(matches, team_name) is called.
RateCalc ==
    /\ r_pc = "input"
    /\ r_before' = calculate_over15_rate(r_matches, r_team)
    /\ r_pc' = "rated"
    /\ UNCHANGED <<r_matches, r_team, r_after, runVars, pickVars>>

\* A match of the team with a missing home or away score is added to the list,
\* and calculate_over15_rate is called again.
RateAddMissing ==
    /\ r_pc = "rated"
    /\ \E m \in MissingScoreMatches, i \in 1..(Len(r_matches) + 1) :
          /\ m.homeTeam = r_team \/ m.awayTeam = r_team
          /\ r_matches' = InsertAt(r_matches, i, m)
          /\ r_after' = calculate_over15_rate(r_matches', r_team)
    /\ r_pc' = "added"
    /\ UNCHANGED <<r_team, r_before, runVars, pickVars>>

NextRate ==
    \/ RateCalc
    \/ RateAddMissing

SpecRate == InitRate /\ [][NextRate]_vars

\* C2: the rate of a team is the same after a match of the team with a missing
\* score is added to the matches.
C2_MissingScoreInvariant == r_pc = "added" => RateEq(r_after, r_before)

-----------------------------------------------------------------------------
(* get_top_picks on its own *)

\* The longest frame the picks are selected from.
MaxPickRows == 4

\* 0.70, in hundredths
Threshold == 70
\* head(3)
TopN == 3

\* A row of the frame: row i is of date i (the dataset has one row per key), with
\* the two rates and Model_Prob of a profile.
PickRow(i, prof) ==
    [Date |-> i, League |-> "League", HomeTeam |-> "A", AwayTeam |-> "B", Time |-> 15,
     Over15_Rate_Home |-> prof[1], Over15_Rate_Away |-> prof[2], Model_Prob |-> prof[3],
     HomeScore |-> <<>>, AwayScore |-> <<>>]
Profiles ==
    {<<80, 80, 0>>, <<70, 70, 70>>, <<80, 80, 80>>, <<100, 100, 100>>,
     <<69, 100, 85>>, <<100, 60, 80>>}
Frames ==
    UNION {{[i \in 1..n |-> PickRow(i, f[i])] : f \in [1..n -> Profiles]} :
              n \in 0..MaxPickRows}

\* The first n rows: head(n).
HeadRows(s, n) == SubSeq(s, 1, IF Len(s) < n THEN Len(s) ELSE n)

\* stats_mask alone.
QualifiesStatsOnly(r) ==
    r.Over15_Rate_Home >= Threshold /\ r.Over15_Rate_Away >= Threshold
\* stats_mask & prob_mask (App.py:124-129).
Qualifies(r) ==
    /\ r.Over15_Rate_Home >= Threshold /\ r.Over15_Rate_Away >= Threshold
    /\ r.Model_Prob >= Threshold

\* sort_values(by='Model_Prob', ascending=False): the default sort is not a
\* stable one, so rows of equal Model_Prob come in any order.
SortValuesDesc(s) ==
    LET n == Len(s)
        Perms == {f \in [1..n -> 1..n] : \A i, j \in 1..n : i # j => f[i] # f[j]}
        Sorted(f) == \A i \in 1..(n - 1) : s[f[i]].Model_Prob >= s[f[i + 1]].Model_Prob
    IN  {[i \in 1..n |-> s[f[i]]] : f \in {g \in Perms : Sorted(g)}}

\* get_top_picks(df): the frames it can return.
get_top_picks(frame) ==
    IF frame = <<>> THEN {<<>>}
    ELSE {HeadRows(t, TopN) : t \in SortValuesDesc(SelectSeq(frame, Qualifies))}

InitPicks ==
    /\ RunOff
    /\ RateOff
    /\ p_df \in Frames
    /\ p_out = <<>>
    /\ p_df2 = <<>>
    /\ p_out2 = <<>>
    /\ p_pc = "input"

\* get_top_picks(df) is called.
GetTopPicks ==
    /\ p_pc = "input"
    /\ p_out' \in get_top_picks(p_df)
    /\ p_pc' = "picked"
    /\ UNCHANGED <<p_df, p_df2, p_out2, runVars, rateVars>>

RemoveAt(s, i) == SubSeq(s, 1, i - 1) \o SubSeq(s, i + 1, Len(s))

\* A row of the lowest Model_Prob among those that pass the filter is removed
\* from the frame, and get_top_picks is called again.
GetTopPicksWithoutLowest ==
    /\ p_pc = "picked"
    /\ \E i \in 1..Len(p_df) :
          /\ p_df[i].Over15_Rate_Home >= Threshold
          /\ p_df[i].Over15_Rate_Away >= Threshold
          /\ p_df[i].Model_Prob >= Threshold
          /\ \A j \in 1..Len(p_df) :
                (/\ p_df[j].Over15_Rate_Home >= Threshold
                 /\ p_df[j].Over15_Rate_Away >= Threshold
                 /\ p_df[j].Model_Prob >= Threshold)
                    => p_df[i].Model_Prob <= p_df[j].Model_Prob
          /\ p_df2' = RemoveAt(p_df, i)
    /\ p_out2' \in get_top_picks(p_df2')
    /\ p_pc' = "removed"
    /\ UNCHANGED <<p_df, p_out, runVars, rateVars>>

NextPicks ==
    \/ GetTopPicks
    \/ GetTopPicksWithoutLowest

SpecPicks == InitPicks /\ [][NextPicks]_vars

\* The rows of the frame that meet the three thresholds of 0.70.
Passing(frame) ==
    {r \in Range(frame) : /\ r.Over15_Rate_Home >= 70
                          /\ r.Over15_Rate_Away >= 70
                          /\ r.Model_Prob >= 70}
Probs(s) == [i \in 1..Len(s) |-> s[i].Model_Prob]

\* What C9 says of one call: at most 3 rows, each meeting the three thresholds,
\* in descending order of Model_Prob, no passing row left out that has a higher
\* Model_Prob than a returned one, and nothing when no row passes.
PicksAreTop(frame, out) ==
    /\ Len(out) <= 3
    /\ Range(out) \subseteq Passing(frame)
    /\ \A i \in 1..(Len(out) - 1) : out[i].Model_Prob >= out[i + 1].Model_Prob
    /\ \A r \in Passing(frame) \ Range(out) :
          \A i \in 1..Len(out) : r.Model_Prob <= out[i].Model_Prob
    /\ Passing(frame) = {} => out = <<>>

\* C9 as stated: the result is the top 3, and with a lowest passing row removed
\* from the input the first 2 returned rows are the same.
C9_TopPicksStable ==
    /\ p_pc \in {"picked", "removed"} => PicksAreTop(p_df, p_out)
    /\ p_pc = "removed" => HeadRows(p_out2, 2) = HeadRows(p_out, 2)

\* C9 amended: the result is the top 3; with a lowest passing row removed from
\* an input of at least 3 passing rows, the first 2 returned rows have the same
\* Model_Prob values, and are the same rows when no two passing rows have the
\* same Model_Prob.
C9_TopPicks ==
    /\ p_pc \in {"picked", "removed"} => PicksAreTop(p_df, p_out)
    /\ p_pc = "removed" => PicksAreTop(p_df2, p_out2)
    /\ (p_pc = "removed" /\ Cardinality(Passing(p_df)) >= 3) =>
          /\ Probs(HeadRows(p_out2, 2)) = Probs(HeadRows(p_out, 2))
          /\ (\A r, q \in Passing(p_df) : r # q => r.Model_Prob # q.Model_Prob)
                => HeadRows(p_out2, 2) = HeadRows(p_out, 2)

\* Four passing rows, three of them returned, and the call repeated without the
\* lowest.
C9_Witness ==
    /\ p_pc = "removed"
    /\ Cardinality(Passing(p_df)) = 4
    /\ Len(p_out) = 3
    /\ Len(p_out2) = 3

====
